---- MODULE Spec2Model ----
(***************************************************************************)
(* Model of pygac_fdr/metadata.py: MetadataCollector.get_metadata, i.e.    *)
(* collection of one record per level 1c file, the sort by                 *)
(* (start_time, end_time), the chain of global quality flag rules applied  *)
(* per platform, and the computation of the overlap-free scanline range.   *)
(*                                                                         *)
(* Time is an integer count of minutes from an arbitrary origin.  The      *)
(* thresholds are the arguments of the constructor and of the rule methods *)
(* (defaults 50 lines, 5 min, 120 min, window 20); they are instantiated   *)
(* with small values so that every rule is exercised by a few short files. *)
(***************************************************************************)
EXTENDS Integers, Sequences, FiniteSets, TLC

\* ---------------------------------------------------------------- bounds
MaxFiles == 3          \* number of files given to get_metadata
min_num_lines == 3     \* MetadataCollector(min_num_lines=...)
min_duration == 2      \* MetadataCollector(min_duration=...)
max_length == 5        \* _set_too_long_flag(max_length=...)
window == 2            \* _set_redundant_flag(window=...)

\* ------------------------------------------------------------- constants
NaN == -9999           \* stands for np.nan in the overlap columns

QualityFlags ==
  [OK |-> 0, INVALID_TIMESTAMP |-> 1, TOO_SHORT |-> 2, TOO_LONG |-> 3,
   DUPLICATE |-> 4, REDUNDANT |-> 5]

\* (valid_min, valid_max); a pair of length 1 has valid_max = None.
TIME_COVERAGE ==
  [p \in {"NOAA-15", "NOAA-6"} |-> IF p = "NOAA-6" THEN <<1, 8>> ELSE <<1>>]

\* groupby('platform') visits the groups in sorted key order.
PlatformOrder == <<"NOAA-15", "NOAA-6">>

\* The level 1c files: the platform attribute as its '>'-separated parts and
\* the acq_time variable (one timestamp per scanline).
Dataset ==
  [f01 |-> [platform |-> <<"NOAA POES", "NOAA-6">>, acq_time |-> <<1, 2, 3, 4>>],
   f02 |-> [platform |-> <<"NOAA POES", "NOAA-6">>, acq_time |-> <<2, 3, 4, 5>>],
   f03 |-> [platform |-> <<"NOAA POES", "NOAA-6">>, acq_time |-> <<3, 4, 5, 6>>],
   f04 |-> [platform |-> <<"NOAA POES", "NOAA-6">>, acq_time |-> <<1, 2, 3, 4, 5>>],
   f05 |-> [platform |-> <<"NOAA POES", "NOAA-6">>, acq_time |-> <<1, 1, 2, 3, 4>>],
   f06 |-> [platform |-> <<"NOAA POES", "NOAA-6">>, acq_time |-> <<1, 4>>],
   f07 |-> [platform |-> <<"NOAA POES", "NOAA-6">>, acq_time |-> <<1, 3, 5, 8>>],
   f08 |-> [platform |-> <<"NOAA POES", "NOAA-6">>, acq_time |-> <<1, 2, 6, 8>>],
   f09 |-> [platform |-> <<"NOAA POES", "NOAA-6">>, acq_time |-> <<2, 3>>],
   f10 |-> [platform |-> <<"NOAA POES", "NOAA-6">>, acq_time |-> <<0, 1>>],
   f11 |-> [platform |-> <<"NOAA POES", "NOAA-6">>, acq_time |-> <<5, 4, 3, 2>>],
   f12 |-> [platform |-> <<"NOAA POES", "NOAA-6">>, acq_time |-> <<6, 7, 8, 9>>],
   f13 |-> [platform |-> <<"NOAA POES", "NOAA-15">>, acq_time |-> <<6, 7, 8, 9>>],
   f14 |-> [platform |-> <<"NOAA POES", "NOAA-15">>, acq_time |-> <<1, 2, 3, 4>>],
   f15 |-> [platform |-> <<"NOAA POES", "NOAA-6">>, acq_time |-> <<5, 6, 7, 8>>],
   f16 |-> [platform |-> <<"NOAA POES", "NOAA-6">>, acq_time |-> <<1, 2, 3, 4, 5, 6>>]]

Filenames == DOMAIN Dataset

\* The argument of get_metadata: 1..MaxFiles distinct files in any order.
InputSeqs ==
  UNION {{s \in [1..n -> Filenames] : \A a, b \in 1..n : a # b => s[a] # s[b]}
         : n \in 1..MaxFiles}

\* ------------------------------------------------------------- helpers
Last(s) == s[Len(s)]

Abs(x) == IF x < 0 THEN -x ELSE x

Max(a, b) == IF a > b THEN a ELSE b

\* df.loc[mask, 'global_quality_flag'] = flag
SetFlag(d, mask, flag) ==
  [k \in DOMAIN d |->
     IF mask[k] THEN [d[k] EXCEPT !.global_quality_flag = flag] ELSE d[k]]

\* numpy argmax of a boolean array: 0-based index of the first True, 0 if
\* there is none.
ArgMax(b) ==
  IF \E k \in DOMAIN b : b[k]
  THEN (CHOOSE k \in DOMAIN b : b[k] /\ \A j \in 1..(k - 1) : ~b[j]) - 1
  ELSE 0

\* ------------------------------------------------------- _collect_metadata
CollectRecord(filename) ==
  LET ds == Dataset[filename] IN
  [platform |-> Last(ds.platform),
   start_time |-> ds.acq_time[1],
   end_time |-> Last(ds.acq_time),
   along_track |-> Len(ds.acq_time),
   filename |-> filename,
   overlap_free_start |-> NaN,
   overlap_free_end |-> NaN,
   global_quality_flag |-> QualityFlags.OK]

CollectMetadata(fns) == [k \in DOMAIN fns |-> CollectRecord(fns[k])]

\* Row j comes before row k: lexicographic by (start_time, end_time), rows
\* with equal keys in their input order.
SortBefore(d, j, k) ==
  \/ d[j].start_time < d[k].start_time
  \/ d[j].start_time = d[k].start_time /\ d[j].end_time < d[k].end_time
  \/ d[j].start_time = d[k].start_time /\ d[j].end_time = d[k].end_time /\ j < k

\* Variant: the frame left in the order the files were given.
sort_values_skipped(d) == d

\* df.sort_values(by=['start_time', 'end_time']), a stable sort.
sort_values(d) ==
  LET rank(k) == Cardinality({j \in DOMAIN d : SortBefore(d, j, k)}) + 1
  IN [n \in DOMAIN d |-> d[CHOOSE k \in DOMAIN d : rank(k) = n]]

\* The rows of one group of groupby('platform'), in frame order.
Group(d, p) == SelectSeq(d, LAMBDA r : r.platform = p)

GroupKeys(d) == SelectSeq(PlatformOrder, LAMBDA p : \E k \in DOMAIN d : d[k].platform = p)

\* --------------------------------------------------------- quality rules
\* Timestamps outside the temporal coverage of the platform, or
\* end_time < start_time.  A missing valid_max is replaced by 2030-01-01,
\* here a time later than every timestamp of the files (99).
_set_invalid_timestamp_flag(d, platform) ==
  LET cov == TIME_COVERAGE[platform]
      valid_min == cov[1]
      valid_max == IF Len(cov) < 2 THEN 99 ELSE cov[2]
      out_of_range(r) == \/ r.start_time < valid_min
                         \/ r.start_time > valid_max
                         \/ r.end_time < valid_min
                         \/ r.end_time > valid_max
      neg_dur(r) == r.end_time < r.start_time
      invalid == [k \in DOMAIN d |-> neg_dur(d[k]) \/ out_of_range(d[k])]
  IN SetFlag(d, invalid, QualityFlags.INVALID_TIMESTAMP)

_set_too_short_flag(d) ==
  LET too_short == [k \in DOMAIN d |->
                      \/ d[k].along_track < min_num_lines
                      \/ Abs(d[k].end_time - d[k].start_time) < min_duration]
  IN SetFlag(d, too_short, QualityFlags.TOO_SHORT)

_set_too_long_flag(d) ==
  LET too_long == [k \in DOMAIN d |-> (d[k].end_time - d[k].start_time) > max_length]
  IN SetFlag(d, too_long, QualityFlags.TOO_LONG)

\* The rows rule 4 works on: df[df['global_quality_flag'] == OK], as the
\* ascending sequence of their positions in d.
OkRows(d) ==
  LET ok == {k \in DOMAIN d : d[k].global_quality_flag = QualityFlags.OK}
      nth[n \in 1..Cardinality(ok)] ==
        CHOOSE k \in ok : Cardinality({j \in ok : j < k}) = n - 1
  IN nth

\* is_redundant on one rolling window: w is the sequence of the window's
\* rows, the last one being the current row.
is_redundant(w) ==
  \E j \in 1..(Len(w) - 1) :
     /\ w[Len(w)].start_time >= w[j].start_time
     /\ w[Len(w)].end_time <= w[j].end_time

\* Series.rolling(win, min_periods=2): the window of row n holds the rows
\* n-win+1 .. n (the current row included); fewer than 2 rows give NaN,
\* which fillna(0) turns into False.
Rolling(rows, win, n) == SubSeq(rows, Max(1, n - win + 1), n)

\* Variant: the rolling window over all rows instead of the OK rows.
_set_redundant_flag_unfiltered(d, win) ==
  LET redundant == {n \in DOMAIN d : /\ Len(Rolling(d, win, n)) >= 2
                                     /\ is_redundant(Rolling(d, win, n))}
  IN SetFlag(d, [k \in DOMAIN d |-> k \in redundant], QualityFlags.REDUNDANT)

_set_redundant_flag(d, win) ==
  LET ok == OkRows(d)
      df_ok == [n \in DOMAIN ok |-> d[ok[n]]]
      redundant == {ok[n] : n \in {m \in DOMAIN ok :
                                     /\ Len(Rolling(df_ok, win, m)) >= 2
                                     /\ is_redundant(Rolling(df_ok, win, m))}}
  IN SetFlag(d, [k \in DOMAIN d |-> k \in redundant], QualityFlags.REDUNDANT)

\* df.duplicated(subset=['platform', 'start_time', 'end_time'], keep='first')
_set_duplicate_flag(d) ==
  LET gs_dupl == [k \in DOMAIN d |->
                    \E j \in 1..(k - 1) : /\ d[j].platform = d[k].platform
                                          /\ d[j].start_time = d[k].start_time
                                          /\ d[j].end_time = d[k].end_time]
  IN SetFlag(d, gs_dupl, QualityFlags.DUPLICATE)

_set_global_qual_flags(d, platform) ==
  _set_duplicate_flag(
    _set_redundant_flag(
      _set_too_long_flag(
        _set_too_short_flag(
          _set_invalid_timestamp_flag(d, platform))), window))

\* ------------------------------------------------------------ _calc_overlap
\* Variant: every row of the group, whatever its flag.
DfOk_unfiltered(d) == [n \in DOMAIN d |-> n]

\* Line 306: df_ok = df[df['global_quality_flag'] == OK], as the ascending
\* sequence of the positions of its rows in d.
DfOk(d) == OkRows(d)

\* prev_row / next_row of iteration i (0-based) over df_ok: a sequence that is
\* empty for None and holds the row otherwise.
PrevRow(df_ok, i) == IF i > 0 THEN <<df_ok[i]>> ELSE <<>>

NextRow(df_ok, i) == IF i < Len(df_ok) - 1 THEN <<df_ok[i + 2]>> ELSE <<>>

\* Variant: the first scanline not earlier than the end of the predecessor.
OverlapFreeStart_inclusive(this_row, prev_row, this_time) ==
  IF prev_row # <<>>
  THEN IF prev_row[1].end_time >= this_row.start_time
       THEN ArgMax([k \in DOMAIN this_time |-> this_time[k] >= prev_row[1].end_time])
       ELSE 0
  ELSE 0

\* Lines 316-325: the value written to overlap_free_start.
OverlapFreeStart(this_row, prev_row, this_time) ==
  IF prev_row # <<>>
  THEN IF prev_row[1].end_time >= this_row.start_time
       THEN ArgMax([k \in DOMAIN this_time |-> this_time[k] > prev_row[1].end_time])
       ELSE 0
  ELSE 0

\* Lines 328-337: the value written to overlap_free_end; the column keeps
\* its value when the row is the last one and open_end is set.
OverlapFreeEnd(this_row, next_row, this_time, open_end) ==
  IF next_row # <<>>
  THEN IF this_row.end_time >= next_row[1].start_time
       THEN ArgMax([k \in DOMAIN this_time |-> this_time[k] >= next_row[1].start_time]) - 1
       ELSE this_row.along_track - 1
  ELSE IF ~open_end THEN this_row.along_track - 1 ELSE this_row.overlap_free_end

\* One iteration of the loop of _calc_overlap over df_ok, with the file of
\* this_row opened successfully.
CalcOverlapRow(d, i, open_end) ==
  LET ok == DfOk(d)
      df_ok == [n \in DOMAIN ok |-> d[ok[n]]]
      this_row == df_ok[i + 1]
      this_time == Dataset[this_row.filename].acq_time
  IN [d EXCEPT ![ok[i + 1]] =
        [@ EXCEPT !.overlap_free_start =
                     OverlapFreeStart(this_row, PrevRow(df_ok, i), this_time),
                  !.overlap_free_end =
                     OverlapFreeEnd(this_row, NextRow(df_ok, i), this_time, open_end)]]

RECURSIVE CalcOverlapFrom(_, _, _)
CalcOverlapFrom(d, i, open_end) ==
  IF i < Len(DfOk(d))
  THEN CalcOverlapFrom(CalcOverlapRow(d, i, open_end), i + 1, open_end)
  ELSE d

_calc_overlap(d, open_end) == CalcOverlapFrom(d, 0, open_end)

\* ------------------------------------------------------------- get_metadata
\* df.groupby('platform').apply(f): f on every group, results concatenated
\* in key order.
RECURSIVE ApplyFlags(_, _)
ApplyFlags(d, keys) ==
  IF keys = <<>> THEN <<>>
  ELSE _set_global_qual_flags(Group(d, Head(keys)), Head(keys))
       \o ApplyFlags(d, Tail(keys))

RECURSIVE ApplyOverlap(_, _)
ApplyOverlap(d, keys) ==
  IF keys = <<>> THEN <<>>
  ELSE _calc_overlap(Group(d, Head(keys)), FALSE) \o ApplyOverlap(d, Tail(keys))

\* The frame get_metadata returns when no file access fails.
get_metadata(fns) ==
  LET sorted == sort_values(CollectMetadata(fns))
      flagged == ApplyFlags(sorted, GroupKeys(sorted))
  IN ApplyOverlap(flagged, GroupKeys(flagged))

\* ----------------------------------------------------------------- state
VARIABLES
  filenames,   \* the argument of get_metadata
  pc,          \* position in get_metadata
  df,          \* the data frame of get_metadata
  pending,     \* keys of the groups the running groupby().apply() has yet to do
  out,         \* results of the groups it has done
  cur,         \* the frame of the group _calc_overlap is working on
  i,           \* loop variable of _calc_overlap
  opened,      \* files _calc_overlap has opened with xr.open_dataset
  used,        \* files whose row _calc_overlap has read as prev_row or next_row
  failed       \* the file whose xr.open_dataset raised, "" if none

vars == <<filenames, pc, df, pending, out, cur, i, opened, used, failed>>

Init ==
  /\ filenames \in InputSeqs
  /\ pc = "collect"
  /\ df = <<>>
  /\ pending = <<>>
  /\ out = <<>>
  /\ cur = <<>>
  /\ i = 0
  /\ opened = {}
  /\ used = {}
  /\ failed = ""

\* Lines 104-105: collect one record per file and sort.
CollectAndSort ==
  /\ pc = "collect"
  /\ df' = sort_values(CollectMetadata(filenames))
  /\ pending' = GroupKeys(df')
  /\ pc' = "flags"
  /\ UNCHANGED <<filenames, out, cur, i, opened, used, failed>>

\* Line 109: _set_global_qual_flags on the next group.
SetGlobalQualFlags ==
  /\ pc = "flags"
  /\ pending # <<>>
  /\ out' = out \o _set_global_qual_flags(Group(df, Head(pending)), Head(pending))
  /\ pending' = Tail(pending)
  /\ UNCHANGED <<filenames, pc, df, cur, i, opened, used, failed>>

\* Lines 109-114: the flagged groups become df, which is grouped again.
Regroup ==
  /\ pc = "flags"
  /\ pending = <<>>
  /\ df' = out
  /\ out' = <<>>
  /\ pending' = GroupKeys(out)
  /\ cur' = Group(out, Head(GroupKeys(out)))
  /\ i' = 0
  /\ pc' = "overlap"
  /\ UNCHANGED <<filenames, opened, used, failed>>

\* Lines 308-337: one iteration of _calc_overlap, the file opened.
CalcOverlapIter ==
  /\ pc = "overlap"
  /\ i < Len(DfOk(cur))
  /\ LET ok == DfOk(cur)
         df_ok == [n \in DOMAIN ok |-> cur[ok[n]]]
         nb == PrevRow(df_ok, i) \o NextRow(df_ok, i)
     IN /\ opened' = opened \cup {df_ok[i + 1].filename}
        /\ used' = used \cup {nb[k].filename : k \in DOMAIN nb}
  /\ cur' = CalcOverlapRow(cur, i, FALSE)
  /\ i' = i + 1
  /\ UNCHANGED <<filenames, pc, df, pending, out, failed>>

\* Line 313: xr.open_dataset raises; nothing catches the exception, which
\* leaves _calc_overlap, the apply and get_metadata.
CalcOverlapRaise ==
  /\ pc = "overlap"
  /\ i < Len(DfOk(cur))
  /\ failed' = cur[DfOk(cur)[i + 1]].filename
  /\ pc' = "raised"
  /\ UNCHANGED <<filenames, df, pending, out, cur, i, opened, used>>

\* Line 339: _calc_overlap returns the group; the apply goes on with the next.
CalcOverlapReturn ==
  /\ pc = "overlap"
  /\ i = Len(DfOk(cur))
  /\ Tail(pending) # <<>>
  /\ out' = out \o cur
  /\ pending' = Tail(pending)
  /\ cur' = Group(df, Head(Tail(pending)))
  /\ i' = 0
  /\ UNCHANGED <<filenames, pc, df, opened, used, failed>>

\* Lines 114-116: the last group is done; get_metadata returns df.
Return ==
  /\ pc = "overlap"
  /\ i = Len(DfOk(cur))
  /\ Tail(pending) = <<>>
  /\ df' = out \o cur
  /\ out' = <<>>
  /\ cur' = <<>>
  /\ pending' = <<>>
  /\ pc' = "done"
  /\ UNCHANGED <<filenames, i, opened, used, failed>>

Next ==
  \/ CollectAndSort
  \/ SetGlobalQualFlags
  \/ Regroup
  \/ CalcOverlapIter
  \/ CalcOverlapRaise
  \/ CalcOverlapReturn
  \/ Return

Spec == Init /\ [][Next]_vars

\* The actions compute what get_metadata computes.
StepwiseAgrees == pc = "done" => df = get_metadata(filenames)

\* ------------------------------------------------------------- properties
\* The rule predicates and the neighbour relation as the documentation
\* states them, on the time fields of the records alone.

Classified == pc \in {"overlap", "raised", "done"}

Platforms == {PlatformOrder[k] : k \in DOMAIN PlatformOrder}

IsInvalid(r) ==
  LET cov == TIME_COVERAGE[r.platform]
      lo == cov[1]
      hi == IF Len(cov) < 2 THEN 99 ELSE cov[2]
  IN \/ r.end_time < r.start_time
     \/ r.start_time < lo \/ r.start_time > hi
     \/ r.end_time < lo \/ r.end_time > hi

IsTooShort(r) ==
  r.along_track < min_num_lines \/ Abs(r.end_time - r.start_time) < min_duration

IsTooLong(r) == r.end_time - r.start_time > max_length

\* Positions of the rows of g that rules 1-3 leave OK.
Pool(g) == {k \in DOMAIN g : ~IsInvalid(g[k]) /\ ~IsTooShort(g[k]) /\ ~IsTooLong(g[k])}

PoolPos(g, k) == Cardinality({j \in Pool(g) : j < k})

Contains(b, a) == b.start_time <= a.start_time /\ a.end_time <= b.end_time

\* Row k is in the pool and one of the `look` pool rows before it contains it.
IsRedundant(g, k, look) ==
  /\ k \in Pool(g)
  /\ \E j \in Pool(g) : /\ j < k
                        /\ PoolPos(g, k) - PoolPos(g, j) <= look
                        /\ Contains(g[j], g[k])

IsDuplicate(g, k) ==
  \E j \in 1..(k - 1) : /\ g[j].start_time = g[k].start_time
                        /\ g[j].end_time = g[k].end_time

\* The label of the last matching rule; rule 4 looks at the rows its rolling
\* window of `window` rows holds besides the current one.
ExpectedFlag(g, k) ==
  IF IsDuplicate(g, k) THEN QualityFlags.DUPLICATE
  ELSE IF IsRedundant(g, k, window - 1) THEN QualityFlags.REDUNDANT
  ELSE IF IsTooLong(g[k]) THEN QualityFlags.TOO_LONG
  ELSE IF IsTooShort(g[k]) THEN QualityFlags.TOO_SHORT
  ELSE IF IsInvalid(g[k]) THEN QualityFlags.INVALID_TIMESTAMP
  ELSE QualityFlags.OK

Rows == {df[k] : k \in DOMAIN df}

OkOf(p) == {r \in Rows : r.platform = p /\ r.global_quality_flag = QualityFlags.OK}

KeyLess(q, r) ==
  \/ q.start_time < r.start_time
  \/ q.start_time = r.start_time /\ q.end_time < r.end_time

\* The nearest OK record of the platform before / after r (a set of 0 or 1).
PredOf(r) ==
  {q \in OkOf(r.platform) :
     KeyLess(q, r) /\ ~\E x \in OkOf(r.platform) : KeyLess(q, x) /\ KeyLess(x, r)}

SuccOf(r) ==
  {q \in OkOf(r.platform) :
     KeyLess(r, q) /\ ~\E x \in OkOf(r.platform) : KeyLess(r, x) /\ KeyLess(x, q)}

TimesOf(r) == Dataset[r.filename].acq_time

NonDecreasing(ts) == \A k \in 1..(Len(ts) - 1) : ts[k] <= ts[k + 1]

\* Scanline timestamps that are non-decreasing and run from start_time to
\* end_time (the latter by construction of the record).
WellFormed(r) == NonDecreasing(TimesOf(r))

\* 0-based indices of the scanlines of r later than t / not earlier than t.
After(r, t) == {k \in 0..(r.along_track - 1) : TimesOf(r)[k + 1] > t}

From(r, t) == {k \in 0..(r.along_track - 1) : TimesOf(r)[k + 1] >= t}

Least(S) == CHOOSE k \in S : \A j \in S : k <= j

\* C1: the quality flag of every record is the label of the last rule, in
\* the order INVALID_TIMESTAMP, TOO_SHORT, TOO_LONG, REDUNDANT, DUPLICATE,
\* whose predicate matches it, OK if none does; REDUNDANT matches only pool
\* records against pool containers.  A too long later member of a duplicate
\* group ends DUPLICATE and a too short record never ends REDUNDANT.
C1_RulePrecedence ==
  Classified =>
    \A p \in Platforms :
      LET g == Group(df, p) IN
      \A k \in DOMAIN g :
         /\ g[k].global_quality_flag = ExpectedFlag(g, k)
         /\ (IsTooLong(g[k]) /\ IsDuplicate(g, k)
               => g[k].global_quality_flag = QualityFlags.DUPLICATE)
         /\ (IsTooShort(g[k])
               => g[k].global_quality_flag # QualityFlags.REDUNDANT)

\* A frame with a too long duplicate, flagged DUPLICATE, and a frame with a
\* too short record that a pool record before it contains.
C1_Witness ==
  /\ Classified
  /\ \E p \in Platforms :
       LET g == Group(df, p) IN
       \/ /\ \E k \in DOMAIN g : /\ IsTooLong(g[k]) /\ IsDuplicate(g, k)
                                 /\ g[k].global_quality_flag = QualityFlags.DUPLICATE
          /\ \E k \in DOMAIN g : g[k].global_quality_flag = QualityFlags.REDUNDANT
       \/ /\ \E k \in DOMAIN g :
                /\ IsTooShort(g[k])
                /\ \E j \in Pool(g) : j < k /\ Contains(g[j], g[k])
                /\ g[k].global_quality_flag = QualityFlags.TOO_SHORT
          /\ \E k \in DOMAIN g : g[k].global_quality_flag = QualityFlags.REDUNDANT

\* C2 (as claimed): record i of the pool is marked redundant iff one of the
\* min(i, window) pool records before it contains it.
C2_LookBackWindow ==
  Classified =>
    \A p \in Platforms :
      LET g == Group(df, p) IN
      \A k \in Pool(g) :
         ~IsDuplicate(g, k) =>
            (g[k].global_quality_flag = QualityFlags.REDUNDANT
               <=> IsRedundant(g, k, window))

\* C3: the overlap bounds of an OK record against its nearest OK neighbours.
C3_OverlapBounds ==
  pc = "done" =>
    \A r \in Rows :
      (r.global_quality_flag = QualityFlags.OK /\ WellFormed(r)) =>
        /\ \/ /\ \A q \in PredOf(r) : q.end_time < r.start_time
              /\ r.overlap_free_start = 0
           \/ \E q \in PredOf(r) :
                /\ q.end_time >= r.start_time
                /\ After(r, q.end_time) # {}
                     => r.overlap_free_start = Least(After(r, q.end_time))
        /\ \/ /\ \A q \in SuccOf(r) : r.end_time < q.start_time
              /\ r.overlap_free_end = r.along_track - 1
           \/ \E q \in SuccOf(r) :
                /\ r.end_time >= q.start_time
                /\ From(r, q.start_time) # {}
                     => r.overlap_free_end = Least(From(r, q.start_time)) - 1

\* An OK record that overlaps its OK predecessor and an OK record that
\* overlaps its OK successor, a non-OK record lying between the two, with
\* both scanlines found.
C3_Witness ==
  /\ pc = "done"
  /\ \E r \in Rows :
       /\ r.global_quality_flag = QualityFlags.OK
       /\ \E q \in PredOf(r) :
            /\ q.end_time >= r.start_time
            /\ After(r, q.end_time) # {}
            /\ r.overlap_free_start = Least(After(r, q.end_time))
            /\ r.overlap_free_start > 0
            /\ \E x \in Rows : /\ x.platform = r.platform
                               /\ x.global_quality_flag # QualityFlags.OK
                               /\ KeyLess(q, x) /\ KeyLess(x, r)
            /\ q.overlap_free_end = Least(From(q, r.start_time)) - 1
            /\ q.overlap_free_end > 0
            /\ q.overlap_free_end < q.along_track - 1

\* C4: after get_metadata a record has both overlap bounds defined iff its
\* flag is OK; a non-OK record keeps both undefined and is never read as
\* prev_row or next_row.
C4_BoundsOnlyForOk ==
  pc = "done" =>
    \A r \in Rows :
      /\ (r.overlap_free_start # NaN /\ r.overlap_free_end # NaN)
           <=> r.global_quality_flag = QualityFlags.OK
      /\ r.global_quality_flag # QualityFlags.OK
           => /\ r.overlap_free_start = NaN
              /\ r.overlap_free_end = NaN
              /\ r.filename \notin used

\* A returned frame with a flagged record between two OK records that were
\* each other's neighbour.
C4_Witness ==
  /\ pc = "done"
  /\ \E r, q, x \in Rows :
       /\ q \in PredOf(r)
       /\ x.platform = r.platform
       /\ x.global_quality_flag # QualityFlags.OK
       /\ KeyLess(q, x) /\ KeyLess(x, r)
       /\ x.overlap_free_start = NaN /\ x.overlap_free_end = NaN
       /\ {q.filename, r.filename} \subseteq used
       /\ r.overlap_free_start # NaN /\ r.overlap_free_end # NaN

\* The per-record outcome of a frame.
Outcome(d) ==
  {[filename |-> d[k].filename,
    global_quality_flag |-> d[k].global_quality_flag,
    overlap_free_start |-> d[k].overlap_free_start,
    overlap_free_end |-> d[k].overlap_free_end] : k \in DOMAIN d}

\* The files of fns in the fixed order of their names.
FileOrder ==
  <<"f01", "f02", "f03", "f04", "f05", "f06", "f07", "f08",
    "f09", "f10", "f11", "f12", "f13", "f14", "f15", "f16">>

Canonical(fns) ==
  SelectSeq(FileOrder, LAMBDA f : \E k \in DOMAIN fns : fns[k] = f)

SameKey(f, g) ==
  LET a == CollectRecord(f)
      b == CollectRecord(g)
  IN a.platform = b.platform /\ a.start_time = b.start_time /\ a.end_time = b.end_time

UniqueKeys(fns) ==
  \A a, b \in DOMAIN fns : a # b => ~SameKey(fns[a], fns[b])

\* C5 (as claimed): every ordering of a set of files gives every record the
\* same outcome, records that share (platform, start_time, end_time) included.
C5_OrderIndependent ==
  pc = "done" => Outcome(df) = Outcome(get_metadata(Canonical(filenames)))

\* C5 (amended): every ordering of a set of files no two of which share
\* (platform, start_time, end_time) gives every record the same flag and the
\* same overlap bounds.
C5_OrderIndependentUniqueKeys ==
  (pc = "done" /\ UniqueKeys(filenames)) =>
     Outcome(df) = Outcome(get_metadata(Canonical(filenames)))

\* Three files with distinct keys given in an order that is neither the
\* order of their names nor that of their times, one of them redundant.
C5_Witness ==
  /\ pc = "done"
  /\ UniqueKeys(filenames)
  /\ Len(filenames) >= 3
  /\ filenames # Canonical(filenames)
  /\ CollectMetadata(filenames) # sort_values(CollectMetadata(filenames))
  /\ \E r \in Rows : r.global_quality_flag = QualityFlags.REDUNDANT
  /\ \E r \in Rows : r.global_quality_flag = QualityFlags.OK /\ r.overlap_free_start > 0

\* Some frame of the run holds both overlap bounds of file f.
Received(f) ==
  \E d \in {df, out, cur} : \E k \in DOMAIN d :
     /\ d[k].filename = f
     /\ d[k].overlap_free_start # NaN
     /\ d[k].overlap_free_end # NaN

\* C6 (as claimed): when the timestamp fetch of one record has failed and
\* get_metadata has come to its end, every other OK record of every platform
\* has got both overlap bounds.
C6_FetchFailureIsolated ==
  (failed # "" /\ ~ENABLED Next) =>
     \A r \in Rows :
        (r.global_quality_flag = QualityFlags.OK /\ r.filename # failed)
           => Received(r.filename)

\* C7 (as claimed): _calc_overlap opens only files of OK records that overlap
\* their OK predecessor or their OK successor.
C7_LazyLookup ==
  Classified =>
    \A f \in opened :
      \E r \in Rows :
        /\ r.filename = f
        /\ r.global_quality_flag = QualityFlags.OK
        /\ \/ \E q \in PredOf(r) : q.end_time >= r.start_time
           \/ \E q \in SuccOf(r) : r.end_time >= q.start_time

\* C8 (as claimed): every OK record with well-formed scanline timestamps
\* ends with overlap_free_start <= overlap_free_end.
C8_StartBeforeEnd ==
  pc = "done" =>
    \A r \in Rows :
      (/\ r.global_quality_flag = QualityFlags.OK
       /\ WellFormed(r)
       /\ r.overlap_free_start # NaN
       /\ r.overlap_free_end # NaN)
        => r.overlap_free_start <= r.overlap_free_end

\* The same on the OK records whose OK successor starts later than they do:
\* the case of a record that its two OK neighbours cover between them.
C8_StartBeforeEndLaterSuccessor ==
  pc = "done" =>
    \A r \in Rows :
      (/\ r.global_quality_flag = QualityFlags.OK
       /\ WellFormed(r)
       /\ \A q \in SuccOf(r) : q.start_time > r.start_time)
        => r.overlap_free_start <= r.overlap_free_end

\* C9 (as claimed): every defined overlap bound of an OK record with
\* well-formed scanline timestamps is one of its scanline indices.
C9_BoundsAreScanlines ==
  pc = "done" =>
    \A r \in Rows :
      (r.global_quality_flag = QualityFlags.OK /\ WellFormed(r)) =>
        /\ r.overlap_free_start # NaN
             => r.overlap_free_start \in 0..(r.along_track - 1)
        /\ r.overlap_free_end # NaN
             => r.overlap_free_end \in 0..(r.along_track - 1)

\* C10 (as claimed): no record that ends OK is contained in another record
\* that ends OK and lies fewer than `window` pool positions away.
C10_NoContainedOk ==
  Classified =>
    \A p \in Platforms :
      LET g == Group(df, p) IN
      \A a, b \in Pool(g) :
        (/\ a # b
         /\ g[a].global_quality_flag = QualityFlags.OK
         /\ g[b].global_quality_flag = QualityFlags.OK
         /\ Abs(PoolPos(g, a) - PoolPos(g, b)) < window)
          => ~Contains(g[b], g[a])

====
